---- MODULE Spec2Model ----
(***************************************************************************)
(* libgcc/config/rl78/mulsi3.S: the RL78 integer-multiply helpers          *)
(* ___mulsi3 (32x32=32) and ___mulhi3 (16x16=16), with their shared        *)
(* subroutine .Lmul_hi.  The routines are kept as instruction sequences    *)
(* (one entry per source line) and executed by a small RL78 machine:       *)
(* register banks, the CY and Z flags, the stack pointer and the stack.    *)
(***************************************************************************)
EXTENDS Integers, Sequences, FiniteSets, TLC

\* ------------------------------------------------------------------------
\* Machine parameters

\* width of an RL78 register pair (AX, BC) and of a stack word
WordBits == 16
Wrap == 2 ^ WordBits
WordMax == Wrap - 1

\* number of pseudo-random sample words added to the edge values
NSamples == 2

\* argument half-words: the edge values the code tests for (0, 0xffff),
\* 1, the top bit alone, and NSamples words with scattered bits
Samples == {0, 1, WordMax, Wrap \div 2} \cup {(k * 42435) % Wrap : k \in 1..NSamples}

\* values the caller may have left in registers and flags
Garbage == {[v |-> 0, f |-> FALSE], [v |-> 48879, f |-> TRUE]}

\* ------------------------------------------------------------------------
\* Operands

Reg(r) == [k |-> "reg", r |-> r, n |-> 0]
ax == Reg("ax")
bc == Reg("bc")
Saddr(b, r) == [k |-> "saddr", r |-> r, n |-> b]
\* vregs.h: r8.. are the bytes of bank 1, r16.. those of bank 2,
\* r_0.. the real registers of bank 0
r8 == Saddr(1, "ax")
r10 == Saddr(1, "bc")
r16 == Saddr(2, "ax")
r_0 == Saddr(0, "ax")
r_2 == Saddr(0, "bc")
SP(n) == [k |-> "sp", r |-> "", n |-> n]
Imm(n) == [k |-> "imm", r |-> "", n |-> n]
Lbl(l) == [k |-> "lbl", r |-> l, n |-> 0]
None == [k |-> "none", r |-> "", n |-> 0]

I0(op) == [op |-> op, a |-> None, b |-> None]
I1(op, a) == [op |-> op, a |-> a, b |-> None]
I2(op, a, b) == [op |-> op, a |-> a, b |-> b]
Label(l) == I1("label", Lbl(l))

\* ------------------------------------------------------------------------
\* The code

mulsi3_prologue ==
  << Label("___mulsi3"),
     I1("sel", Imm(2)),
     I1("push", ax),
     I1("push", bc),
     I1("sel", Imm(0)),
     I1("clrw", ax),
     I2("movw", r8, ax),
     I2("movw", r16, ax) >>

mulsi3_cross1 ==
  << I2("movw", ax, SP(14)),
     I2("cmpw", ax, Imm(0)),
     I1("bz", Lbl("1f")),
     I2("cmpw", ax, Imm(65535)),
     I1("bnz", Lbl("2f")),
     I2("movw", ax, SP(8)),
     I1("sel", Imm(1)),
     I2("subw", ax, r_0),
     I1("sel", Imm(0)),
     I1("br", Lbl("1f")),
     Label("2"),
     I2("movw", bc, ax),
     I2("movw", ax, SP(8)),
     I2("cmpw", ax, Imm(0)),
     I0("skz"),
     I1("call", Lbl(".Lmul_hi")),
     Label("1") >>

mulsi3_cross2 ==
  << I2("movw", ax, SP(10)),
     I2("cmpw", ax, Imm(0)),
     I1("bz", Lbl("1f")),
     I2("cmpw", ax, Imm(65535)),
     I1("bnz", Lbl("2f")),
     I2("movw", ax, SP(12)),
     I1("sel", Imm(1)),
     I2("subw", ax, r_0),
     I1("sel", Imm(0)),
     I1("br", Lbl("1f")),
     Label("2"),
     I2("movw", bc, ax),
     I2("movw", ax, SP(12)),
     I2("cmpw", ax, Imm(0)),
     I0("skz"),
     I1("call", Lbl(".Lmul_hi")),
     Label("1") >>

mulsi3_low_setup ==
  << I2("movw", ax, r8),
     I2("movw", r16, ax),
     I1("clrw", ax),
     I2("movw", r8, ax),
     I2("movw", ax, SP(8)),
     I2("movw", r10, ax),
     I2("movw", ax, SP(12)),
     I2("cmpw", ax, r10),
     I1("bc", Lbl(".Lmul_hisi_top")),
     I2("movw", bc, r10),
     I2("movw", r10, ax),
     I2("movw", ax, bc) >>

\* .Lmul_hisi_top leaving the high half of the shifted operand uncleared
Lmul_hisi_top_no_clear ==
  << Label(".Lmul_hisi_top") >>

Lmul_hisi_top ==
  << Label(".Lmul_hisi_top"),
     I2("movw", bc, Imm(0)) >>

Lmul_hisi_loop ==
  << Label(".Lmul_hisi_loop"),
     I2("shrw", ax, Imm(1)),
     I1("bnc", Lbl(".Lmul_hisi_no_add")),
     I1("sel", Imm(1)),
     I2("addw", ax, bc),
     I1("sel", Imm(2)),
     I0("sknc"),
     I1("incw", ax),
     I2("addw", ax, r_2),
     Label(".Lmul_hisi_no_add"),
     I1("sel", Imm(1)),
     I2("shlw", bc, Imm(1)),
     I1("sel", Imm(0)),
     I2("rolwc", bc, Imm(1)),
     I2("cmpw", ax, Imm(0)),
     I1("bz", Lbl(".Lmul_hisi_done")),
     I2("shrw", ax, Imm(1)),
     I1("bnc", Lbl(".Lmul_hisi_no_add2")),
     I1("sel", Imm(1)),
     I2("addw", ax, bc),
     I1("sel", Imm(2)),
     I0("sknc"),
     I1("incw", ax),
     I2("addw", ax, r_2),
     Label(".Lmul_hisi_no_add2"),
     I1("sel", Imm(1)),
     I2("shlw", bc, Imm(1)),
     I1("sel", Imm(0)),
     I2("rolwc", bc, Imm(1)),
     I2("cmpw", ax, Imm(0)),
     I1("bnz", Lbl(".Lmul_hisi_loop")) >>

\* the epilogue popping bank 2 in push order
Lmul_hisi_done_pops_swapped ==
  << Label(".Lmul_hisi_done"),
     I2("movw", ax, r16),
     I2("movw", r10, ax),
     I1("sel", Imm(2)),
     I1("pop", ax),
     I1("pop", bc),
     I1("sel", Imm(0)),
     I0("ret") >>

Lmul_hisi_done ==
  << Label(".Lmul_hisi_done"),
     I2("movw", ax, r16),
     I2("movw", r10, ax),
     I1("sel", Imm(2)),
     I1("pop", bc),
     I1("pop", ax),
     I1("sel", Imm(0)),
     I0("ret") >>

\* ___mulhi3 without the clearing of the accumulator
mulhi3_entry_no_clear ==
  << Label("___mulhi3"),
     I2("movw", ax, SP(6)),
     I2("movw", bc, ax),
     I2("movw", ax, SP(4)) >>

mulhi3_entry ==
  << Label("___mulhi3"),
     I2("movw", r8, Imm(0)),
     I2("movw", ax, SP(6)),
     I2("movw", bc, ax),
     I2("movw", ax, SP(4)) >>

Lmul_hi ==
  << Label(".Lmul_hi"),
     I2("cmpw", ax, bc),
     I0("skc"),
     I2("xchw", ax, bc),
     I1("br", Lbl(".Lmul_hi_loop")) >>

\* .Lmul_hi_top adding the multiplier (bank-0 AX) instead of BC
Lmul_hi_top_adds_ax ==
  << Label(".Lmul_hi_top"),
     I1("sel", Imm(1)),
     I2("addw", ax, r_0),
     I1("sel", Imm(0)),
     Label(".Lmul_hi_no_add"),
     I2("shlw", bc, Imm(1)) >>

Lmul_hi_top ==
  << Label(".Lmul_hi_top"),
     I1("sel", Imm(1)),
     I2("addw", ax, r_2),
     I1("sel", Imm(0)),
     Label(".Lmul_hi_no_add"),
     I2("shlw", bc, Imm(1)) >>

\* .Lmul_hi_loop whose first exit test branches on carry instead of zero
Lmul_hi_loop_exit_on_carry ==
  << Label(".Lmul_hi_loop"),
     I2("shrw", ax, Imm(1)),
     I1("bc", Lbl(".Lmul_hi_top")),
     I2("cmpw", ax, Imm(0)),
     I1("bc", Lbl(".Lmul_hi_done")),
     I2("shlw", bc, Imm(1)),
     I2("shrw", ax, Imm(1)),
     I1("bc", Lbl(".Lmul_hi_top")),
     I2("cmpw", ax, Imm(0)),
     I1("bnz", Lbl(".Lmul_hi_no_add")),
     Label(".Lmul_hi_done"),
     I0("ret") >>

Lmul_hi_loop ==
  << Label(".Lmul_hi_loop"),
     I2("shrw", ax, Imm(1)),
     I1("bc", Lbl(".Lmul_hi_top")),
     I2("cmpw", ax, Imm(0)),
     I1("bz", Lbl(".Lmul_hi_done")),
     I2("shlw", bc, Imm(1)),
     I2("shrw", ax, Imm(1)),
     I1("bc", Lbl(".Lmul_hi_top")),
     I2("cmpw", ax, Imm(0)),
     I1("bnz", Lbl(".Lmul_hi_no_add")),
     Label(".Lmul_hi_done"),
     I0("ret") >>

Prog ==
  mulsi3_prologue \o mulsi3_cross1 \o mulsi3_cross2 \o mulsi3_low_setup
    \o Lmul_hisi_top \o Lmul_hisi_loop \o Lmul_hisi_done
    \o mulhi3_entry \o Lmul_hi \o Lmul_hi_top \o Lmul_hi_loop

\* ------------------------------------------------------------------------
\* Layout

\* cross-references of the code: the index of a label; "1f" and "2f" name
\* the next definition of the local label 1 or 2 after the referring line
LabelAt(i, l) == Prog[i].op = "label" /\ Prog[i].a.r = l
Global(l) == CHOOSE i \in 1..Len(Prog) : LabelAt(i, l)
Forward(p, l) ==
  CHOOSE i \in (p + 1)..Len(Prog) :
    LabelAt(i, l) /\ \A j \in (p + 1)..(i - 1) : ~LabelAt(j, l)
Target(p, l) ==
  IF l = "1f" THEN Forward(p, "1")
  ELSE IF l = "2f" THEN Forward(p, "2")
  ELSE Global(l)

\* the address the caller's call pushed; pc = CallerPC: the routine returned
CallerPC == 0
\* the stack pointer on entry; [sp+0..3] is the return address, the
\* arguments follow at [sp+4]
SP0 == 8
StackAddrs == {2 * i : i \in 0..((SP0 + 10) \div 2)}

VARIABLES pc, bank, regs, cy, z, sp, mem, in, hi_in, loop, nshr

vars == <<pc, bank, regs, cy, z, sp, mem, in, hi_in, loop, nshr>>
trace == <<in, hi_in, loop, nshr>>

Cur == Prog[pc]
Running == pc \in 1..Len(Prog)
At(op) == Running /\ Cur.op = op

\* ------------------------------------------------------------------------
\* Operand access

Rd(o) ==
  CASE o.k = "reg" -> regs[bank][o.r]
    [] o.k = "saddr" -> regs[o.n][o.r]
    [] o.k = "sp" -> mem[sp + o.n]
    [] o.k = "imm" -> o.n

\* the registers after writing v to register operand o
Wr(o, v) ==
  IF o.k = "reg" THEN [regs EXCEPT ![bank][o.r] = v]
  ELSE [regs EXCEPT ![o.n][o.r] = v]

\* ------------------------------------------------------------------------
\* Initial state: the caller has pushed the arguments and called the entry

Entries == {"___mulsi3", "___mulhi3"}

InitMem(a) ==
  [m \in StackAddrs |->
     IF m = SP0 THEN CallerPC
     ELSE IF m = SP0 + 4 THEN a[1]
     ELSE IF m = SP0 + 6 THEN a[2]
     ELSE IF m = SP0 + 8 THEN a[3]
     ELSE IF m = SP0 + 10 THEN a[4]
     ELSE 0]

InitRegs(g) ==
  [b \in 0..2 |-> [r \in {"ax", "bc"} |->
     (g + 2 * b + (IF r = "ax" THEN 1 ELSE 2)) % Wrap]]

Init ==
  \E e \in Entries, g \in Garbage :
    \E a \in (IF e = "___mulsi3"
              THEN Samples \X Samples \X Samples \X Samples
              ELSE Samples \X Samples \X {g.v} \X {g.v}) :
      /\ pc = Global(e)
      /\ bank = 0
      /\ regs = InitRegs(g.v)
      /\ cy = g.f
      /\ z = g.f
      /\ sp = SP0
      /\ mem = InitMem(a)
      /\ in = [entry |-> e, a |-> a, regs |-> InitRegs(g.v)]
      /\ hi_in = [r |-> 0, x |-> 0, y |-> 0, bank |-> 0, n |-> 0]
      /\ loop = "none"
      /\ nshr = 0

\* ------------------------------------------------------------------------
\* Instructions

\* a label occupies no code; passing .Lmul_hi or .Lmul_hisi_top starts a
\* multiply loop, whose operands and shift count the trace variables record
DoLabel ==
  /\ At("label")
  /\ pc' = pc + 1
  /\ UNCHANGED <<bank, regs, cy, z, sp, mem, in>>
  /\ IF Cur.a.r = ".Lmul_hi"
     THEN /\ hi_in' = [r |-> Rd(r8), x |-> Rd(ax), y |-> Rd(bc),
                       bank |-> bank, n |-> hi_in.n + 1]
          /\ loop' = ".Lmul_hi"
          /\ nshr' = 0
     ELSE IF Cur.a.r = ".Lmul_hisi_top"
     THEN /\ loop' = ".Lmul_hisi"
          /\ nshr' = 0
          /\ UNCHANGED hi_in
     ELSE UNCHANGED <<hi_in, loop, nshr>>

Sel ==
  /\ At("sel")
  /\ bank' = Cur.a.n
  /\ pc' = pc + 1
  /\ UNCHANGED <<regs, cy, z, sp, mem, trace>>

Push ==
  /\ At("push")
  /\ sp' = sp - 2
  /\ mem' = [mem EXCEPT ![sp - 2] = Rd(Cur.a)]
  /\ pc' = pc + 1
  /\ UNCHANGED <<bank, regs, cy, z, trace>>

Pop ==
  /\ At("pop")
  /\ regs' = Wr(Cur.a, mem[sp])
  /\ sp' = sp + 2
  /\ pc' = pc + 1
  /\ UNCHANGED <<bank, cy, z, mem, trace>>

Clrw ==
  /\ At("clrw")
  /\ regs' = Wr(Cur.a, 0)
  /\ pc' = pc + 1
  /\ UNCHANGED <<bank, cy, z, sp, mem, trace>>

Movw ==
  /\ At("movw")
  /\ regs' = Wr(Cur.a, Rd(Cur.b))
  /\ pc' = pc + 1
  /\ UNCHANGED <<bank, cy, z, sp, mem, trace>>

Xchw ==
  /\ At("xchw")
  /\ regs' = [regs EXCEPT ![bank] =
                [regs[bank] EXCEPT ![Cur.a.r] = Rd(Cur.b), ![Cur.b.r] = Rd(Cur.a)]]
  /\ pc' = pc + 1
  /\ UNCHANGED <<bank, cy, z, sp, mem, trace>>

\* cmpw sets Z and the borrow, and stores nothing
Cmpw ==
  /\ At("cmpw")
  /\ z' = (Rd(Cur.a) = Rd(Cur.b))
  /\ cy' = (Rd(Cur.a) < Rd(Cur.b))
  /\ pc' = pc + 1
  /\ UNCHANGED <<bank, regs, sp, mem, trace>>

Subw ==
  /\ At("subw")
  /\ regs' = Wr(Cur.a, (Rd(Cur.a) - Rd(Cur.b)) % Wrap)
  /\ z' = (Rd(Cur.a) = Rd(Cur.b))
  /\ cy' = (Rd(Cur.a) < Rd(Cur.b))
  /\ pc' = pc + 1
  /\ UNCHANGED <<bank, sp, mem, trace>>

Addw ==
  /\ At("addw")
  /\ regs' = Wr(Cur.a, (Rd(Cur.a) + Rd(Cur.b)) % Wrap)
  /\ z' = ((Rd(Cur.a) + Rd(Cur.b)) % Wrap = 0)
  /\ cy' = (Rd(Cur.a) + Rd(Cur.b) >= Wrap)
  /\ pc' = pc + 1
  /\ UNCHANGED <<bank, sp, mem, trace>>

\* incw changes no flag
Incw ==
  /\ At("incw")
  /\ regs' = Wr(Cur.a, (Rd(Cur.a) + 1) % Wrap)
  /\ pc' = pc + 1
  /\ UNCHANGED <<bank, cy, z, sp, mem, trace>>

\* shrw shifts bit 0 out into CY and leaves Z alone
Shrw ==
  /\ At("shrw")
  /\ regs' = Wr(Cur.a, Rd(Cur.a) \div 2)
  /\ cy' = (Rd(Cur.a) % 2 = 1)
  /\ nshr' = nshr + 1
  /\ pc' = pc + 1
  /\ UNCHANGED <<bank, z, sp, mem, in, hi_in, loop>>

\* shlw shifts the top bit out into CY
Shlw ==
  /\ At("shlw")
  /\ regs' = Wr(Cur.a, (2 * Rd(Cur.a)) % Wrap)
  /\ cy' = (2 * Rd(Cur.a) >= Wrap)
  /\ pc' = pc + 1
  /\ UNCHANGED <<bank, z, sp, mem, trace>>

\* rolwc rotates left through CY
Rolwc ==
  /\ At("rolwc")
  /\ regs' = Wr(Cur.a, (2 * Rd(Cur.a) + (IF cy THEN 1 ELSE 0)) % Wrap)
  /\ cy' = (2 * Rd(Cur.a) >= Wrap)
  /\ pc' = pc + 1
  /\ UNCHANGED <<bank, z, sp, mem, trace>>

\* the condition a conditional branch or skip tests
Cond(op) ==
  CASE op \in {"bz", "skz"} -> z
    [] op = "bnz" -> ~z
    [] op \in {"bc", "skc"} -> cy
    [] op \in {"bnc", "sknc"} -> ~cy

Br ==
  /\ At("br")
  /\ pc' = Target(pc, Cur.a.r)
  /\ UNCHANGED <<bank, regs, cy, z, sp, mem, trace>>

Branch ==
  /\ Running /\ Cur.op \in {"bz", "bnz", "bc", "bnc"}
  /\ pc' = IF Cond(Cur.op) THEN Target(pc, Cur.a.r) ELSE pc + 1
  /\ UNCHANGED <<bank, regs, cy, z, sp, mem, trace>>

\* skz, skc, sknc: skip the next instruction when the condition holds
Skip ==
  /\ Running /\ Cur.op \in {"skz", "skc", "sknc"}
  /\ pc' = IF Cond(Cur.op) THEN pc + 2 ELSE pc + 1
  /\ UNCHANGED <<bank, regs, cy, z, sp, mem, trace>>

\* call pushes the four-byte return address
Call ==
  /\ At("call")
  /\ sp' = sp - 4
  /\ mem' = [mem EXCEPT ![sp - 4] = pc + 1, ![sp - 2] = 0]
  /\ pc' = Target(pc, Cur.a.r)
  /\ UNCHANGED <<bank, regs, cy, z, trace>>

Ret ==
  /\ At("ret")
  /\ pc' = mem[sp]
  /\ sp' = sp + 4
  /\ UNCHANGED <<bank, regs, cy, z, mem, trace>>

Next ==
  \/ DoLabel
  \/ Sel
  \/ Push
  \/ Pop
  \/ Clrw
  \/ Movw
  \/ Xchw
  \/ Cmpw
  \/ Subw
  \/ Addw
  \/ Incw
  \/ Shrw
  \/ Shlw
  \/ Rolwc
  \/ Br
  \/ Branch
  \/ Skip
  \/ Call
  \/ Ret

Spec == Init /\ [][Next]_vars

\* the processor executes the next instruction as long as there is one
FairSpec == Spec /\ WF_vars(Next)

\* ------------------------------------------------------------------------
TypeOK ==
  /\ pc \in 0..Len(Prog)
  /\ bank \in 0..2
  /\ \A b \in 0..2 : \A r \in {"ax", "bc"} : regs[b][r] \in 0..WordMax
  /\ sp \in StackAddrs
  /\ \A m \in StackAddrs : mem[m] \in 0..WordMax

Returned == pc = CallerPC

\* the ret that ends the code following label l
RetAfter(l) ==
  CHOOSE i \in Global(l)..Len(Prog) :
    Prog[i].op = "ret" /\ \A j \in Global(l)..(i - 1) : Prog[j].op # "ret"
MulsiRet == RetAfter("___mulsi3")
MulhiRet == RetAfter("___mulhi3")

\* The product of two 16-bit words, for reference, by its low and its high
\* word.  With x = 256 * xh + xl the product is 256 * (xh * y) + xl * y, and
\* no intermediate value exceeds 2^25 (the checker's integers have 32 bits).
MulLo(x, y) == ((((x \div 256) * y) % Wrap) * 256 + (x % 256) * y) % Wrap
MulHi(x, y) == (((x \div 256) * y) + (((x % 256) * y) \div 256)) \div 256

\* (a * b) mod 2^32 by words, for a = 2^16 * ah + al and b = 2^16 * bh + bl:
\* a * b = al * bl + 2^16 * (al * bh + ah * bl)  (mod 2^32)
Mul32Lo(al, ah, bl, bh) == MulLo(al, bl)
Mul32Hi(al, ah, bl, bh) == (MulHi(al, bl) + MulLo(al, bh) + MulLo(ah, bl)) % Wrap

InMulsi == in.entry = "___mulsi3"
InMulhi == in.entry = "___mulhi3"

\* ------------------------------------------------------------------------
\* C1: when ___mulsi3 returns, r8 holds the low 16 bits and r10 the high
\* 16 bits of (a * b) mod 2^32, for the unsigned 32-bit arguments a at
\* [sp+4] and b at [sp+8].
C1_Mulsi3Product ==
  (InMulsi /\ (pc = MulsiRet \/ Returned)) =>
     /\ Rd(r8) = Mul32Lo(in.a[1], in.a[2], in.a[3], in.a[4])
     /\ Rd(r10) = Mul32Hi(in.a[1], in.a[2], in.a[3], in.a[4])

\* ___mulsi3 has returned from a multiplication in which both cross
\* products went through .Lmul_hi and the low product carried into the
\* high word
C1_Witness ==
  /\ InMulsi /\ Returned
  /\ hi_in.n = 2
  /\ MulHi(in.a[1], in.a[3]) # 0
  /\ Rd(r10) # 0 /\ Rd(r8) # 0

\* C2: when ___mulhi3 returns, r8 holds (a * b) mod 2^16 for the arguments
\* a at [sp+4] and b at [sp+6], whatever r8 held on entry.
C2_Mulhi3Product ==
  (InMulhi /\ (pc = MulhiRet \/ Returned)) =>
     Rd(r8) = MulLo(in.a[1], in.a[2])

\* ___mulhi3 has returned a non-zero product that overflowed 16 bits,
\* having been entered with a non-zero r8
C2_Witness ==
  /\ InMulhi /\ Returned
  /\ in.regs[1]["ax"] # 0
  /\ MulHi(in.a[1], in.a[2]) # 0
  /\ Rd(r8) # 0

\* C3: at the final ret of ___mulsi3 bank-2 AX and BC hold their entry
\* values, sp has its entry value, the argument words and the return
\* address on the stack are unmodified and RB0 is selected; the ret then
\* returns to the caller.
C3_Mulsi3Frame ==
  /\ (InMulsi /\ pc = MulsiRet) =>
       /\ regs[2] = in.regs[2]
       /\ sp = SP0
       /\ \A m \in StackAddrs : m >= SP0 => mem[m] = InitMem(in.a)[m]
       /\ bank = 0
  /\ (InMulsi /\ Returned) =>
       /\ regs[2] = in.regs[2]
       /\ sp = SP0 + 4
       /\ bank = 0

\* ___mulsi3 is at its final ret after two calls of .Lmul_hi and with the
\* accumulated high word (r16 before the epilogue) different from what
\* bank-2 AX held on entry
C3_Witness ==
  /\ InMulsi /\ pc = MulsiRet
  /\ hi_in.n = 2
  /\ Rd(r10) # in.regs[2]["ax"]
  /\ in.regs[2]["ax"] # 0 /\ in.regs[2]["bc"] # 0

\* C4 as claimed: no loop shifts the multiplier more than 16 times
C4_AtMost16Shifts == nshr <= WordBits

\* C4: every call of ___mulsi3 and of ___mulhi3 reaches its ret and
\* returns; .Lmul_hisi_loop shifts the multiplier at most 16 times and
\* .Lmul_hi_loop at most 17 times (after the add for bit 15 it shifts the
\* then zero multiplier once more before it tests for zero).
C4_Terminates ==
  /\ <>Returned
  /\ [](loop = ".Lmul_hisi" => nshr <= WordBits)
  /\ [](loop = ".Lmul_hi" => nshr <= WordBits + 1)

\* a routine has returned after .Lmul_hi_loop shifted 17 times
C4_Witness == Returned /\ loop = ".Lmul_hi" /\ nshr = WordBits + 1

\* C5: .Lmul_hi, entered with RB0 selected, r in r8, x in AX and y in BC,
\* reaches its ret with r8 = (r + x * y) mod 2^16 and RB0 selected.
C5_MulHiAccumulates ==
  (pc = MulhiRet /\ hi_in.bank = 0) =>
     /\ Rd(r8) = (hi_in.r + MulLo(hi_in.x, hi_in.y)) % Wrap
     /\ bank = 0

\* .Lmul_hi is at its ret after swapping AX and BC (x > y), having been
\* entered with a non-zero accumulator
C5_Witness ==
  /\ pc = MulhiRet
  /\ hi_in.bank = 0
  /\ hi_in.r # 0
  /\ hi_in.x > hi_in.y /\ hi_in.y > 1
  /\ Rd(r8) # hi_in.r

====
